---- MODULE Spec2Model ----
(***************************************************************************)
(* Model of run.py: the Hugging Face space monitor.                        *)
(*   - check_space_name_validity / validate_url : pure string checks       *)
(*   - check_space_with_browser_emulation       : one liveness GET         *)
(*   - rebuild_space                            : POST + bounded polling   *)
(*   - __main__                                 : the loop over space_list *)
(*   - generate_data_and_html                   : load / merge / cap / save*)
(* Strings are sequences of characters; "U+00E9" stands for one non-ASCII  *)
(* character.  Time is in whole seconds.                                   *)
(***************************************************************************)
EXTENDS Integers, Sequences, FiniteSets, TLC

VARIABLES
    raw_env,        \* SPACE_LIST as read from the environment (a string)
    username,       \* USERNAME
    space_list,     \* parsed space_list
    vIdx,           \* validation sweep: index of the last name judged
    verdicts,       \* validation sweep: result of check_space_name_validity per name
    global_timeout_seconds,
    now,            \* time.time()
    pc,             \* position of the script
    start_time,     \* __main__: start_time
    i,              \* __main__: index into space_list of the current space
    results,        \* __main__: results
    probe,          \* what check_space_with_browser_emulation returned and saw
    rb,             \* locals and return value of the running rebuild_space call
    net,            \* every request and sleep of the run, in order
    latency,        \* seconds the network takes to answer or fail during this run
    obs,            \* bookkeeping about the space being handled
    inflight,       \* spaces whose rebuild this run triggered and has not seen end
    exit_code,      \* exit status of the process, -1 while it runs
    data_file,      \* docs/data.js
    runs,           \* number of completed generate_data_and_html calls
    last            \* what the latest generate_data_and_html call loaded and wrote

cfgVars == <<raw_env, username, space_list, global_timeout_seconds>>
valVars == <<vIdx, verdicts>>
runVars == <<now, pc, start_time, i, results, probe, rb, net, latency, obs, inflight,
            exit_code>>
histVars == <<data_file, runs, last>>
vars == <<cfgVars, valVars, runVars, histVars>>

----------------------------------------------------------------------------
(* Bounds of the model *)
MaxBody == 2          \* free characters at the end of an enumerated string

MaxTargets == 2       \* longest configured space list of a monitored run
MaxRuns == 52         \* runs of the script over one docs/data.js

(* Program constants *)
max_space_name_length == 50
SleepSeconds == 30
RebuildBudget == 600
max_attempts == 10
HistoryCap == 50
DnsLabelLimit == 63
DomainLimit == 253

----------------------------------------------------------------------------
(* Characters and strings *)

Letters == {"a", "b", "u", "h", "f", "s", "p", "c", "e", "t"}
Digits == {"7"}
Whitespace == {" ", "\n"}
NameChars == Letters \cup Digits \cup {"_", "-"}       \* [a-zA-Z0-9_-]
DomainChars == Letters \cup Digits \cup {".", "-"}     \* [a-zA-Z0-9.-]

Pad(c, n) == [x \in 1..n |-> c]

RECURSIVE SeqsUpTo(_, _)
SeqsUpTo(S, n) ==
    IF n = 0 THEN {<< >>}
    ELSE LET shorter == SeqsUpTo(S, n - 1)
         IN  shorter \cup {Append(s, c) : s \in {t \in shorter : Len(t) = n - 1}, c \in S}

\* str.strip(): drop leading and trailing whitespace
RECURSIVE LStrip(_)
LStrip(s) == IF s # << >> /\ Head(s) \in Whitespace THEN LStrip(Tail(s)) ELSE s

RECURSIVE RStrip(_)
RStrip(s) ==
    IF s # << >> /\ s[Len(s)] \in Whitespace THEN RStrip(SubSeq(s, 1, Len(s) - 1)) ELSE s

Strip(s) == RStrip(LStrip(s))

\* str.split(sep): the pieces between separators, empty pieces included
RECURSIVE Split(_, _)
Split(s, sep) ==
    IF \A x \in 1..Len(s) : s[x] # sep THEN << s >>
    ELSE LET k == CHOOSE x \in 1..Len(s) : s[x] = sep /\ \A j \in 1..(x - 1) : s[j] # sep
         IN  << SubSeq(s, 1, k - 1) >> \o Split(SubSeq(s, k + 1, Len(s)), sep)

\* [space.strip() for space in space_list_str.split(",") if space.strip()]
RECURSIVE StripNonEmpty(_)
StripNonEmpty(parts) ==
    IF parts = << >> THEN << >>
    ELSE IF Strip(Head(parts)) = << >> THEN StripNonEmpty(Tail(parts))
         ELSE << Strip(Head(parts)) >> \o StripNonEmpty(Tail(parts))

ParseSpaceList(s) == StripNonEmpty(Split(s, ","))

\* re.match(r'^[cls]+$', s): one or more class characters up to the end of the
\* string, where $ also matches just before a final newline
ReMatchPlus(cls, s) ==
    \/ /\ Len(s) >= 1
       /\ \A x \in 1..Len(s) : s[x] \in cls
    \/ /\ Len(s) >= 2
       /\ s[Len(s)] = "\n"
       /\ \A x \in 1..(Len(s) - 1) : s[x] \in cls

\* The "-1 for the dash" bug a careless edit would introduce
check_space_name_validity_NoDash(space_name, user) ==
    /\ ~(Len(space_name) > max_space_name_length)
    /\ ~(Len(user) + Len(space_name) > DnsLabelLimit)
    /\ ReMatchPlus(NameChars, space_name)

check_space_name_validity(space_name, user) ==
    /\ ~(Len(space_name) > max_space_name_length)
    /\ ~(Len(user) + 1 + Len(space_name) > DnsLabelLimit)
    /\ ReMatchPlus(NameChars, space_name)


----------------------------------------------------------------------------
(* validate_url and the URL it is given *)

FullSpaceUrl(user, space_name) ==
    <<"h", "t", "t", "p", "s", ":", "/", "/">> \o user \o <<"-">> \o space_name
        \o <<".", "h", "f", ".", "s", "p", "a", "c", "e">>

\* urlparse(url).netloc for a URL of the form scheme://rest
Netloc(url) ==
    LET rest == SubSeq(url, 9, Len(url))
        stops == {k \in 1..Len(rest) : rest[k] \in {"/", "?", "#"}}
        end == IF stops = {} THEN Len(rest)
               ELSE (CHOOSE k \in stops : \A m \in stops : k <= m) - 1
    IN  SubSeq(rest, 1, end)

validate_url(url) ==
    LET domain == Netloc(url)
        labels == Split(domain, ".")
    IN  /\ ~(Len(url) > DomainLimit)
        /\ ~(Len(domain) > DomainLimit)
        /\ \A k \in 1..Len(labels) : ~(Len(labels[k]) > DnsLabelLimit \/ Len(labels[k]) = 0)
        /\ ReMatchPlus(DomainChars, domain)

----------------------------------------------------------------------------
(* The monitored run: __main__ with the calls it makes *)

Latencies == {29, 90}        \* seconds a request may take to return or fail
TimeoutChoices == {0, 600}

ShortName == <<"a", "b">>
UnderscoreName == <<"a", "_", "b">>
SpacedName == <<"a", " ", "b">>
LongName == Pad("a", max_space_name_length + 1)
RunNames == {ShortName, UnderscoreName, SpacedName, LongName}

\* stage strings of the runtime endpoint, as their words between underscores
RUNNING == <<"RUNNING">>
Stages == {RUNNING, <<"RUNNING", "BUILDING">>, <<"BUILDING">>, <<"BUILD", "ERROR">>,
           <<"RUNTIME", "ERROR">>, << >>}
ContainsERROR(stage) == \E k \in 1..Len(stage) : stage[k] = "ERROR"

\* what one status request can come back with
PollOutcomes ==
    [kind : {"stage"}, stage : Stages]
        \cup {[kind |-> "request_exception", stage |-> << >>],
              [kind |-> "exception", stage |-> << >>]}

ProbeFailures == {"connection_error", "timeout", "http_error"}

NoProbe == [sent |-> FALSE, status |-> FALSE, duration |-> 0, outcome |-> "none"]
NoRebuild == [start_time |-> 0, attempt |-> 0, posted |-> FALSE, polls |-> 0,
              iter_begin |-> 0, clean |-> TRUE,
              last_poll |-> [kind |-> "none", stage |-> << >>], earlier_clean |-> TRUE,
              returned |-> FALSE, result |-> FALSE, duration |-> 0]
NoObs == [check_elapsed |-> 0, calls |-> 0]

Req(kind) == [req |-> kind, idx |-> i]
Count(kind, k) == Cardinality({n \in 1..Len(net) : net[n] = [req |-> kind, idx |-> k]})

\* dict.get(key, default)
Get(d, key, default) == IF key \in DOMAIN d THEN d[key] ELSE default

\* for space in space_list: the global timeout check at the top of the body
TimeoutExceeded_Never(elapsed) == FALSE

TimeoutExceeded(elapsed) == elapsed > global_timeout_seconds

LoopNext ==
    /\ pc = "loop"
    /\ i <= Len(space_list)
    /\ ~TimeoutExceeded(now - start_time)
    /\ pc' = "validate"
    /\ obs' = [check_elapsed |-> now - start_time, calls |-> 0]
    /\ probe' = NoProbe
    /\ rb' = NoRebuild
    /\ UNCHANGED <<inflight, latency, now, start_time, i, results, net, exit_code, cfgVars, valVars, histVars>>

LoopBreak ==
    /\ pc = "loop"
    /\ i <= Len(space_list)
    /\ TimeoutExceeded(now - start_time)
    /\ pc' = "report"
    /\ UNCHANGED <<inflight, latency, now, start_time, i, results, probe, rb, net, obs, exit_code, cfgVars, valVars, histVars>>

LoopEnd ==
    /\ pc = "loop"
    /\ i > Len(space_list)
    /\ pc' = "report"
    /\ UNCHANGED <<inflight, latency, now, start_time, i, results, probe, rb, net, obs, exit_code, cfgVars, valVars, histVars>>

\* the invalid-name branch without its continue: the probe is still made
InvalidName_FallThrough ==
    /\ pc = "validate"
    /\ ~check_space_name_validity(space_list[i], username)
    /\ results' = Append(results, [space |-> space_list[i], result |-> FALSE,
                                   duration |-> 0, invalid_name |-> TRUE,
                                   error_type |-> "name_too_long"])
    /\ pc' = "probe"
    /\ UNCHANGED <<inflight, latency, now, start_time, i, probe, rb, net, obs, exit_code, cfgVars, valVars, histVars>>

InvalidName ==
    /\ pc = "validate"
    /\ ~check_space_name_validity(space_list[i], username)
    /\ results' = Append(results, [space |-> space_list[i], result |-> FALSE,
                                   duration |-> 0, invalid_name |-> TRUE,
                                   error_type |-> "name_too_long"])
    /\ i' = i + 1
    /\ pc' = "loop"
    /\ UNCHANGED <<inflight, latency, now, start_time, probe, rb, net, obs, exit_code, cfgVars, valVars, histVars>>

ValidName ==
    /\ pc = "validate"
    /\ check_space_name_validity(space_list[i], username)
    /\ pc' = "probe"
    /\ UNCHANGED <<inflight, latency, now, start_time, i, results, probe, rb, net, obs, exit_code, cfgVars, valVars, histVars>>

\* check_space_with_browser_emulation: the URL is rejected before any request
ProbeUrlInvalid ==
    /\ pc = "probe"
    /\ ~validate_url(FullSpaceUrl(username, space_list[i]))
    /\ probe' = [sent |-> FALSE, status |-> FALSE, duration |-> 0, outcome |-> "url_invalid"]
    /\ pc' = "after_probe"
    /\ UNCHANGED <<inflight, latency, now, start_time, i, results, rb, net, obs, exit_code, cfgVars, valVars, histVars>>

ProbeOk ==
    /\ pc = "probe"
    /\ validate_url(FullSpaceUrl(username, space_list[i]))
    /\ now' = now + latency
    /\ probe' = [sent |-> TRUE, status |-> TRUE, duration |-> latency, outcome |-> "ok"]
    /\ net' = Append(net, Req("GET"))
    /\ pc' = "after_probe"
    /\ UNCHANGED <<inflight, latency, start_time, i, results, rb, obs, exit_code, cfgVars, valVars, histVars>>

ProbeFail ==
    /\ pc = "probe"
    /\ validate_url(FullSpaceUrl(username, space_list[i]))
    /\ now' = now + latency
    /\ \E why \in ProbeFailures :
        probe' = [sent |-> TRUE, status |-> FALSE, duration |-> latency, outcome |-> why]
    /\ net' = Append(net, Req("GET"))
    /\ pc' = "after_probe"
    /\ UNCHANGED <<inflight, latency, start_time, i, results, rb, obs, exit_code, cfgVars, valVars, histVars>>

\* if not status: ... else: results.append(...)
SpaceUp ==
    /\ pc = "after_probe"
    /\ probe.status
    /\ results' = Append(results, [space |-> space_list[i], result |-> probe.status,
                                   duration |-> probe.duration])
    /\ i' = i + 1
    /\ pc' = "loop"
    /\ UNCHANGED <<inflight, latency, now, start_time, probe, rb, net, obs, exit_code, cfgVars, valVars, histVars>>

SpaceDown ==
    /\ pc = "after_probe"
    /\ ~probe.status
    /\ obs' = [obs EXCEPT !.calls = @ + 1]
    /\ rb' = [NoRebuild EXCEPT !.start_time = now]
    /\ pc' = "rebuild_post"
    /\ UNCHANGED <<inflight, latency, now, start_time, i, results, probe, net, exit_code, cfgVars, valVars, histVars>>

----------------------------------------------------------------------------
(* rebuild_space *)

Elapsed == now - rb.start_time

\* requests.post(rebuild_url, ...) and raise_for_status() went through
RebuildPostOk ==
    /\ pc = "rebuild_post"
    /\ now' = now + latency
    /\ net' = Append(net, Req("POST"))
    /\ rb' = [rb EXCEPT !.posted = TRUE, !.attempt = 0]
    /\ inflight' = inflight \cup {i}
    /\ pc' = "rebuild_guard"
    /\ UNCHANGED <<latency, start_time, i, results, probe, obs, exit_code, cfgVars, valVars, histVars>>

\* except requests.exceptions.RequestException: return False, duration
RebuildPostRequestException ==
    /\ pc = "rebuild_post"
    /\ now' = now + latency
    /\ rb' = [rb EXCEPT !.returned = TRUE, !.result = FALSE,
                        !.duration = now + latency - rb.start_time]
    /\ net' = Append(net, Req("POST"))
    /\ pc' = "rebuild_return"
    /\ UNCHANGED <<inflight, latency, start_time, i, results, probe, obs, exit_code, cfgVars, valVars, histVars>>

\* an exception that is not a RequestException has no handler around the POST:
\* it leaves rebuild_space and __main__, and the interpreter exits with status 1
RebuildPostUncaught ==
    /\ pc = "rebuild_post"
    /\ now' = now + latency
    /\ net' = Append(net, Req("POST"))
    /\ pc' = "crashed"
    /\ exit_code' = 1
    /\ UNCHANGED <<inflight, latency, start_time, i, results, probe, rb, obs, cfgVars, valVars, histVars>>

\* while time.time() - start_time < 600 and attempt < max_attempts
LoopGuard_Or(elapsed, attempt) == elapsed < RebuildBudget \/ attempt < max_attempts

LoopGuard(elapsed, attempt) == elapsed < RebuildBudget /\ attempt < max_attempts

RebuildEnterLoop ==
    /\ pc = "rebuild_guard"
    /\ LoopGuard(Elapsed, rb.attempt)
    /\ rb' = [rb EXCEPT !.iter_begin = Elapsed]
    /\ pc' = "rebuild_sleep"
    /\ UNCHANGED <<inflight, latency, now, start_time, i, results, probe, net, obs, exit_code, cfgVars, valVars, histVars>>

\* return True, duration once the loop is left
RebuildExhausted_Success ==
    /\ pc = "rebuild_guard"
    /\ ~LoopGuard(Elapsed, rb.attempt)
    /\ rb' = [rb EXCEPT !.returned = TRUE, !.result = TRUE, !.duration = Elapsed]
    /\ pc' = "rebuild_return"
    /\ UNCHANGED <<inflight, latency, now, start_time, i, results, probe, net, obs, exit_code, cfgVars, valVars, histVars>>

\* the loop is left without a terminal stage: return False, duration
RebuildExhausted ==
    /\ pc = "rebuild_guard"
    /\ ~LoopGuard(Elapsed, rb.attempt)
    /\ rb' = [rb EXCEPT !.returned = TRUE, !.result = FALSE, !.duration = Elapsed]
    /\ pc' = "rebuild_return"
    /\ UNCHANGED <<inflight, latency, now, start_time, i, results, probe, net, obs, exit_code, cfgVars, valVars, histVars>>

\* the iteration without its time.sleep(30)
RebuildSleep_NoSleep ==
    /\ pc = "rebuild_sleep"
    /\ pc' = "rebuild_get"
    /\ UNCHANGED <<inflight, latency, now, net, start_time, i, results, probe, rb, obs, exit_code, cfgVars, valVars, histVars>>

\* time.sleep(60) in place of time.sleep(30)
RebuildSleep_Long ==
    /\ pc = "rebuild_sleep"
    /\ now' = now + 2 * SleepSeconds
    /\ net' = Append(net, Req("SLEEP"))
    /\ pc' = "rebuild_get"
    /\ UNCHANGED <<inflight, latency, start_time, i, results, probe, rb, obs, exit_code, cfgVars, valVars, histVars>>

RebuildSleep ==
    /\ pc = "rebuild_sleep"
    /\ now' = now + SleepSeconds
    /\ net' = Append(net, Req("SLEEP"))
    /\ pc' = "rebuild_get"
    /\ UNCHANGED <<inflight, latency, start_time, i, results, probe, rb, obs, exit_code, cfgVars, valVars, histVars>>

\* if stage == "RUNNING"
IsRunning_Substring(stage) == \E k \in 1..Len(stage) : stage[k] = "RUNNING"

IsRunning(stage) == stage = RUNNING

\* the loop body without its elif "ERROR" in stage
PollVerdict_IgnoreError(out) ==
    IF out.kind # "stage" THEN "fail"
    ELSE IF IsRunning(out.stage) THEN "success"
    ELSE "continue"

\* the status request of one iteration and what the loop body does with it
PollVerdict(out) ==
    IF out.kind # "stage" THEN "fail"
    ELSE IF IsRunning(out.stage) THEN "success"
    ELSE IF ContainsERROR(out.stage) THEN "fail"
    ELSE "continue"

\* bookkeeping of a status request: how many there were, whether all so far
\* came back with a stage that is neither RUNNING nor an ERROR stage
CleanPoll(out) == out.kind = "stage" /\ out.stage # RUNNING /\ ~ContainsERROR(out.stage)

Polled(out) == [rb EXCEPT !.polls = @ + 1, !.clean = rb.clean /\ CleanPoll(out)]

\* the rebuild is seen to have ended when the stage read is RUNNING or an ERROR stage
SeenEnded(out) == out.kind = "stage" /\ (out.stage = RUNNING \/ ContainsERROR(out.stage))
StillInflight(out) == IF SeenEnded(out) THEN inflight \ {i} ELSE inflight

RebuildPollTerminal ==
    /\ pc = "rebuild_get"
    /\ now' = now + latency
    /\ \E out \in PollOutcomes :
        /\ PollVerdict(out) # "continue"
        /\ rb' = [Polled(out) EXCEPT !.last_poll = out,
                                     !.earlier_clean = rb.clean,
                                     !.returned = TRUE,
                                     !.result = (PollVerdict(out) = "success"),
                                     !.duration = now + latency - rb.start_time]
        /\ inflight' = StillInflight(out)
    /\ net' = Append(net, Req("STATUS"))
    /\ pc' = "rebuild_return"
    /\ UNCHANGED <<latency, start_time, i, results, probe, obs, exit_code, cfgVars, valVars, histVars>>

RebuildPollContinue ==
    /\ pc = "rebuild_get"
    /\ now' = now + latency
    /\ \E out \in PollOutcomes :
        /\ PollVerdict(out) = "continue"
        /\ rb' = [Polled(out) EXCEPT !.attempt = @ + 1]
        /\ inflight' = StillInflight(out)
    /\ net' = Append(net, Req("STATUS"))
    /\ pc' = "rebuild_guard"
    /\ UNCHANGED <<latency, start_time, i, results, probe, obs, exit_code, cfgVars, valVars, histVars>>

\* recording the probe's status where the rebuild's result belongs
RecordRebuild_ProbeStatus ==
    /\ pc = "rebuild_return"
    /\ results' = Append(results, [space |-> space_list[i], result |-> probe.status,
                                   duration |-> rb.duration,
                                   error_type |-> IF ~probe.status THEN "connection_error" ELSE ""])
    /\ i' = i + 1
    /\ pc' = "loop"
    /\ rb' = [NoRebuild EXCEPT !.returned = TRUE, !.result = rb.result,
                               !.duration = rb.duration]
    /\ UNCHANGED <<inflight, latency, now, start_time, probe, net, obs, exit_code, cfgVars, valVars, histVars>>

\* "error_type": "connection_error" without its condition
RecordRebuild_AlwaysError ==
    /\ pc = "rebuild_return"
    /\ results' = Append(results, [space |-> space_list[i], result |-> rb.result,
                                   duration |-> rb.duration,
                                   error_type |-> "connection_error"])
    /\ i' = i + 1
    /\ pc' = "loop"
    /\ rb' = [NoRebuild EXCEPT !.returned = TRUE, !.result = rb.result,
                               !.duration = rb.duration]
    /\ UNCHANGED <<inflight, latency, now, start_time, probe, net, obs, exit_code, cfgVars, valVars, histVars>>

\* back in __main__: results.append({... "result": rebuild_result ...}); of the
\* call only rebuild_result and rebuild_duration remain
RecordRebuild ==
    /\ pc = "rebuild_return"
    /\ results' = Append(results, [space |-> space_list[i], result |-> rb.result,
                                   duration |-> rb.duration,
                                   error_type |-> IF ~rb.result THEN "connection_error" ELSE ""])
    /\ i' = i + 1
    /\ pc' = "loop"
    /\ rb' = [NoRebuild EXCEPT !.returned = TRUE, !.result = rb.result,
                               !.duration = rb.duration]
    /\ UNCHANGED <<inflight, latency, now, start_time, probe, net, obs, exit_code, cfgVars, valVars, histVars>>

----------------------------------------------------------------------------
(* generate_data_and_html: docs/data.js *)

\* An (Ordered)dict is a sequence of [k, v] pairs with distinct keys.
HasKey(d, key) == \E n \in 1..Len(d) : d[n].k = key

\* dict.setdefault(key, value): a key already present keeps its value
DictSet_FirstWins(d, key, value) ==
    IF HasKey(d, key) THEN d ELSE Append(d, [k |-> key, v |-> value])

\* d[key] = value: in place when the key is present, at the end otherwise
DictSet(d, key, value) ==
    IF HasKey(d, key)
    THEN [n \in 1..Len(d) |-> IF d[n].k = key THEN [k |-> key, v |-> value] ELSE d[n]]
    ELSE Append(d, [k |-> key, v |-> value])

\* strftime('%Y-%m-%d %H:%M:%S'), to the second
FormatTime(t) == <<t \div 3600, ":", (t % 3600) \div 60, ":", t % 60>>

\* f"{duration:.2f}秒" of a whole number of seconds
FormatDuration(d) == <<d, ".", "0", "0", "U+79D2">>

InvalidSuffix == <<" ", "(", "U+540D", "U+79F0", "U+65E0", "U+6548", ")">>

DisplayName(r) ==
    IF Get(r, "invalid_name", FALSE) THEN r.space \o InvalidSuffix ELSE r.space

ResultRecord(r) ==
    [status |-> r.result, duration |-> FormatDuration(r.duration),
     error_type |-> Get(r, "error_type", "")]

\* for r in results: current_results[space_name] = {...}
RECURSIVE CurrentResults(_, _)
CurrentResults(acc, rs) ==
    IF rs = << >> THEN acc
    ELSE CurrentResults(DictSet(acc, DisplayName(Head(rs)), ResultRecord(Head(rs))), Tail(rs))

\* if len(existing_data) > 50: delete list(existing_data.keys())[:-50]
KeepLatest_DropNewest(d) == IF Len(d) > HistoryCap THEN SubSeq(d, 1, HistoryCap) ELSE d

KeepLatest(d) ==
    IF Len(d) > HistoryCap THEN SubSeq(d, Len(d) - HistoryCap + 1, Len(d)) ELSE d

\* json.dumps / json.loads of the history: an object of objects of records
DumpRecord(rec) ==
    << <<"status", IF rec.status THEN "true" ELSE "false">>,
       <<"duration", [str |-> rec.duration]>>,
       <<"error_type", [str |-> rec.error_type]>> >>
LoadRecord(js) ==
    [status |-> (js[1][2] = "true"), duration |-> js[2][2].str, error_type |-> js[3][2].str]

DumpBatch(b) == [n \in 1..Len(b) |-> <<[str |-> b[n].k], DumpRecord(b[n].v)>>]
LoadBatch(js) == [n \in 1..Len(js) |-> [k |-> js[n][1].str, v |-> LoadRecord(js[n][2])]]

JsonDumps(d) == [n \in 1..Len(d) |-> <<[str |-> d[n].k], DumpBatch(d[n].v)>>]
JsonLoads(js) == [n \in 1..Len(js) |-> [k |-> js[n][1].str, v |-> LoadBatch(js[n][2])]]

\* The text of a file is a sequence of pieces:
\*   decl     const spaceStatusData =        (no brace in it)
\*   json     the text of one JSON object, which begins with {
\*   semi     ;
\*   ws       white space
\*   plain    other text without a brace
\*   broken   { followed by text that is not JSON
Decl == [t |-> "decl", js |-> << >>]
Semi == [t |-> "semi", js |-> << >>]
Ws == [t |-> "ws", js |-> << >>]
Plain == [t |-> "plain", js |-> << >>]
Broken == [t |-> "broken", js |-> << >>]
JsonText(js) == [t |-> "json", js |-> js]

NoFile == [exists |-> FALSE, decodable |-> TRUE, text |-> << >>]
TextFile(text) == [exists |-> TRUE, decodable |-> TRUE, text |-> text]
BinaryFile == [exists |-> TRUE, decodable |-> FALSE, text |-> << >>]

\* content.find('{')
FindBrace(text) ==
    LET hits == {n \in 1..Len(text) : text[n].t \in {"json", "broken"}}
    IN  IF hits = {} THEN -1 ELSE CHOOSE n \in hits : \A m \in hits : n <= m

\* json.loads(json_str): one JSON value, then nothing but white space
JsonParses(json_str) ==
    /\ Len(json_str) >= 1
    /\ json_str[1].t = "json"
    /\ \A n \in 2..Len(json_str) : json_str[n].t = "ws"

\* The load step, lines 253-268.  raised is what leaves the try statement.
LoadExisting_Propagating(file) ==
    IF ~file.exists THEN [raised |-> FALSE, data |-> << >>]
    ELSE IF ~file.decodable THEN [raised |-> TRUE, data |-> << >>]
    ELSE LET json_start == FindBrace(file.text)
             json_str == SubSeq(file.text, json_start, Len(file.text))
         IN  IF json_start = -1 THEN [raised |-> FALSE, data |-> << >>]
             ELSE IF JsonParses(json_str)
                  THEN [raised |-> FALSE, data |-> JsonLoads(json_str[1].js)]
                  ELSE [raised |-> TRUE, data |-> << >>]

LoadExisting(file) ==
    IF ~file.exists THEN [raised |-> FALSE, data |-> << >>]
    ELSE IF ~file.decodable THEN [raised |-> FALSE, data |-> << >>]
    ELSE LET json_start == FindBrace(file.text)
             json_str == SubSeq(file.text, json_start, Len(file.text))
         IN  IF json_start = -1 THEN [raised |-> FALSE, data |-> << >>]
             ELSE IF JsonParses(json_str)
                  THEN [raised |-> FALSE, data |-> JsonLoads(json_str[1].js)]
                  ELSE [raised |-> FALSE, data |-> << >>]

\* js_content = f"const spaceStatusData = {json.dumps(existing_data, ...)};"
JsContent(existing_data) == <<Decl, JsonText(JsonDumps(existing_data)), Semi>>

\* the object a reader of docs/data.js finds in it
Persisted(file) ==
    IF file.exists /\ file.decodable /\ FindBrace(file.text) # -1
       /\ file.text[FindBrace(file.text)].t = "json"
    THEN JsonLoads(file.text[FindBrace(file.text)].js)
    ELSE << >>

\* result lists as __main__ builds them
UpResult(name, d) == [space |-> name, result |-> TRUE, duration |-> d]
RebuiltResult(name, ok, d) ==
    [space |-> name, result |-> ok, duration |-> d,
     error_type |-> IF ~ok THEN "connection_error" ELSE ""]
InvalidResult(name) ==
    [space |-> name, result |-> FALSE, duration |-> 0, invalid_name |-> TRUE,
     error_type |-> "name_too_long"]

SampleResults ==
    { << >>,
      << UpResult(ShortName, 30) >>,
      << RebuiltResult(ShortName, FALSE, 630), InvalidResult(SpacedName) >>,
      << UpResult(ShortName, 0), RebuiltResult(ShortName, TRUE, 60) >>,
      << InvalidResult(<<"U+00E9", "{">>) >> }

\* a history of n earlier batches, keyed by the times 1..n
OldHistory(n) ==
    [k \in 1..n |-> [k |-> FormatTime(k),
                     v |-> CurrentResults(<< >>, << UpResult(ShortName, k) >>)]]

OldSizes == {0, 1, HistoryCap - 1, HistoryCap, HistoryCap + 1, HistoryCap + 2}

\* docs/data.js as a run may find it
InitialFiles ==
    {NoFile, BinaryFile, TextFile(<< >>), TextFile(<<Plain>>), TextFile(<<Decl, Broken>>),
     TextFile(<<Decl, Broken, Semi>>)}
        \cup {TextFile(<<Decl, JsonText(JsonDumps(OldHistory(n)))>>) : n \in OldSizes}
        \cup {TextFile(<<Decl, JsonText(JsonDumps(OldHistory(n))), Ws>>) : n \in OldSizes}
        \cup {TextFile(JsContent(OldHistory(n))) : n \in OldSizes}

RunFiles == {TextFile(JsContent(OldHistory(1)))}

NoCall == [prior |-> NoFile, raised |-> FALSE, loaded |-> << >>, key |-> << >>,
           batch |-> << >>, written |-> << >>, nresults |-> 0]

\* The whole of generate_data_and_html(rs) at time t, as the new values of
\* data_file, runs and last.
GenerateDataAndHtml(rs, t) ==
    LET ld == LoadExisting(data_file)
        formatted_time == FormatTime(t)
        current_results == CurrentResults(<< >>, rs)
        merged == DictSet(ld.data, formatted_time, current_results)
        existing_data == KeepLatest(merged)
    IN  IF ld.raised
        THEN /\ last' = [prior |-> data_file, raised |-> TRUE, loaded |-> << >>,
                         key |-> formatted_time, batch |-> current_results,
                         written |-> << >>, nresults |-> Len(rs)]
             /\ UNCHANGED <<data_file, runs>>
        ELSE /\ data_file' = TextFile(JsContent(existing_data))
             /\ runs' = runs + 1
             /\ last' = [prior |-> data_file, raised |-> FALSE, loaded |-> ld.data,
                         key |-> formatted_time, batch |-> current_results,
                         written |-> existing_data, nresults |-> Len(rs)]

\* formatted_time = generate_data_and_html(results)
Report ==
    /\ pc = "report"
    /\ GenerateDataAndHtml(results, now)
    /\ pc' = IF LoadExisting(data_file).raised THEN "crashed" ELSE "exit"
    /\ exit_code' = IF LoadExisting(data_file).raised THEN 1 ELSE exit_code
    /\ UNCHANGED <<inflight, latency, now, start_time, i, results, probe, rb, net, obs, cfgVars, valVars>>

\* exit_code = 1 if any(r['result'] is False for r in results) else 0; exit(...)
ExitCode(rs) == IF \E n \in 1..Len(rs) : rs[n].result = FALSE THEN 1 ELSE 0

Exit ==
    /\ pc = "exit"
    /\ exit_code' = ExitCode(results)
    /\ pc' = "done"
    /\ UNCHANGED <<inflight, latency, now, start_time, i, results, probe, rb, net, obs, cfgVars, valVars, histVars>>

----------------------------------------------------------------------------
(* Validation sweep: the configured names, as parsed, put to the validator *)

ValAlphabet == {"a", "7", "_", "-", ".", " ", "\n", ",", "U+00E9"}
ValPadLens == {0, 47, 48, 49, 50}
ValUserLens == {0, 11, 12, 13, 14, 62}

ValInit ==
    /\ raw_env \in {Pad("a", n) \o b : n \in ValPadLens, b \in SeqsUpTo(ValAlphabet, MaxBody)}
    /\ username \in {Pad("u", n) : n \in ValUserLens}
    /\ space_list = ParseSpaceList(raw_env)
    /\ vIdx = 0
    /\ verdicts = << >>
    /\ global_timeout_seconds = 1800
    /\ now = 0
    /\ pc = "validating"
    /\ start_time = 0
    /\ i = 1
    /\ results = << >>
    /\ probe = NoProbe
    /\ rb = NoRebuild
    /\ net = << >>
    /\ latency = 0
    /\ obs = NoObs
    /\ inflight = {}
    /\ exit_code = -1
    /\ data_file = NoFile
    /\ runs = 0
    /\ last = NoCall

ValidateNext ==
    /\ vIdx < Len(space_list)
    /\ vIdx' = vIdx + 1
    /\ verdicts' = Append(verdicts, check_space_name_validity(space_list[vIdx + 1], username))
    /\ UNCHANGED <<cfgVars, runVars, histVars>>

ValNext == ValidateNext

ValidateSpec == ValInit /\ [][ValNext]_vars

----------------------------------------------------------------------------
(* The monitored run as a whole *)

RunInit ==
    /\ raw_env = << >>
    /\ username = <<"u">>
    /\ space_list \in UNION {[1..n -> RunNames] : n \in 0..MaxTargets}
    /\ global_timeout_seconds \in TimeoutChoices
    /\ vIdx = 0
    /\ verdicts = << >>
    /\ now = 0
    /\ pc = "loop"
    /\ start_time = 0
    /\ i = 1
    /\ results = << >>
    /\ probe = NoProbe
    /\ rb = NoRebuild
    /\ net = << >>
    /\ latency \in Latencies
    /\ obs = NoObs
    /\ inflight = {}
    /\ exit_code = -1
    /\ data_file \in RunFiles
    /\ runs = 0
    /\ last = NoCall

Next ==
    \/ LoopNext \/ LoopBreak \/ LoopEnd
    \/ InvalidName \/ ValidName
    \/ ProbeUrlInvalid \/ ProbeOk \/ ProbeFail
    \/ SpaceUp \/ SpaceDown
    \/ RebuildPostOk \/ RebuildPostRequestException \/ RebuildPostUncaught
    \/ RebuildEnterLoop \/ RebuildExhausted \/ RebuildSleep
    \/ RebuildPollTerminal \/ RebuildPollContinue
    \/ RecordRebuild
    \/ Report \/ Exit

Spec == RunInit /\ [][Next]_vars

----------------------------------------------------------------------------
(* Run after run over the same docs/data.js *)

Gaps == {1, 60}     \* seconds between the reports of consecutive runs

HistInit ==
    /\ raw_env = << >>
    /\ username = <<"u">>
    /\ space_list = << >>
    /\ vIdx = 0
    /\ verdicts = << >>
    /\ global_timeout_seconds = 1800
    /\ now = HistoryCap + 3
    /\ pc = "report"
    /\ start_time = 0
    /\ i = 1
    /\ results = << >>
    /\ probe = NoProbe
    /\ rb = NoRebuild
    /\ net = << >>
    /\ latency = 0
    /\ obs = NoObs
    /\ inflight = {}
    /\ exit_code = -1
    /\ data_file \in InitialFiles
    /\ runs = 0
    /\ last = NoCall

\* one run of the script, seen from docs/data.js: its results reach
\* generate_data_and_html some seconds after the previous run's did
HistRun ==
    /\ runs < MaxRuns
    /\ ~last.raised
    /\ \E rs \in SampleResults, gap \in Gaps :
        /\ now' = now + gap
        /\ GenerateDataAndHtml(rs, now + gap)
    /\ UNCHANGED <<cfgVars, valVars, pc, start_time, i, results, probe, rb, net, latency,
                   obs, inflight, exit_code>>

HistNext == HistRun

HistorySpec == HistInit /\ [][HistNext]_vars

----------------------------------------------------------------------------
(* Properties *)

IsValid(k) == check_space_name_validity(space_list[k], username)
IdxRequests(k) == {n \in 1..Len(net) : net[n].idx = k}
InRebuild == pc \in {"rebuild_post", "rebuild_guard", "rebuild_sleep", "rebuild_get",
                     "rebuild_return"}

\* C1 (HistorySpec): once more than 50 runs have saved, docs/data.js holds exactly
\* 50 entries, in chronological order, the newest being the batch of the latest run.
C1_RollingFifty ==
    runs > HistoryCap =>
        LET h == Persisted(data_file)
        IN  /\ Len(h) = HistoryCap
            /\ h[Len(h)] = [k |-> last.key, v |-> last.batch]
            /\ \A n \in 1..Len(h), m \in 1..Len(h) : n # m => h[n].k # h[m].k

\* C2 (HistorySpec): save then load is a round trip: loading the file that a run
\* wrote yields the history that run wrote, keys, order and records.
C2_RoundTrip ==
    runs >= 1 =>
        /\ ~LoadExisting(data_file).raised
        /\ LoadExisting(data_file).data = last.written

\* C3 (HistorySpec): loading never raises; a missing, unreadable, brace-less or
\* non-JSON file loads as the empty history and the run still merges its batch
\* and writes the file.
Unloadable(file) ==
    \/ ~file.exists
    \/ ~file.decodable
    \/ \A n \in 1..Len(file.text) : file.text[n].t \notin {"json", "broken"}
    \/ \E n \in 1..Len(file.text) :
          /\ file.text[n].t = "broken"
          /\ \A m \in 1..(n - 1) : file.text[m].t \notin {"json", "broken"}

C3_LoadNeverRaises ==
    last # NoCall =>
        /\ ~last.raised
        /\ Unloadable(last.prior) =>
              /\ last.loaded = << >>
              /\ Persisted(data_file) = << [k |-> last.key, v |-> last.batch] >>
        /\ data_file.exists /\ data_file.decodable /\ data_file # last.prior

C3_Witness ==
    /\ last # NoCall
    /\ last.prior = TextFile(<<Decl, Broken>>)
    /\ last.batch # << >>
    /\ Persisted(data_file) = << [k |-> last.key, v |-> last.batch] >>

\* C4 (ValidateSpec): a configured name is accepted exactly when it is at most 50
\* long, fits with the user name and the dash in 63, and is a non-empty string of
\* characters from [A-Za-z0-9_-].
C4_ValidateIff ==
    \A n \in 1..Len(verdicts) :
        LET target == space_list[n]
        IN  verdicts[n] = (/\ Len(target) <= 50
                           /\ Len(username) + 1 + Len(target) <= 63
                           /\ target # << >>
                           /\ \A x \in 1..Len(target) : target[x] \in NameChars)

C4_Witness ==
    \E n \in 1..Len(verdicts) :
        /\ verdicts[n]
        /\ Len(space_list[n]) = 50
        /\ Len(username) + 1 + Len(space_list[n]) = 63

\* C5 (Spec): a space whose name is invalid gets no request and no sleep at all;
\* its outcome is recorded as failed with duration 0, and the loop moves on.
C5_InvalidNoNetwork ==
    \A k \in 1..Len(space_list) :
        ~IsValid(k) =>
            /\ IdxRequests(k) = {}
            /\ k <= Len(results) =>
                  /\ results[k].result = FALSE
                  /\ results[k].duration = 0
                  /\ results[k].space = space_list[k]
                  /\ i > k

C5_Witness ==
    /\ Len(results) = 2
    /\ ~IsValid(1)
    /\ IsValid(2)
    /\ Count("GET", 2) = 1

\* C6 (Spec): rebuild_space returns success exactly when the POST went through and
\* a status request, made in an iteration begun before 600 s and at most the 10th,
\* came back with the stage RUNNING after only non-terminal stages; success on the
\* 3rd request means 3 status requests were made.
C6_SuccessIff ==
    pc = "rebuild_return" =>
        /\ rb.result <=> /\ rb.posted
                         /\ rb.polls \in 1..10
                         /\ rb.iter_begin < 600
                         /\ rb.last_poll = [kind |-> "stage", stage |-> <<"RUNNING">>]
                         /\ rb.earlier_clean
        /\ rb.result => Count("STATUS", i) = rb.polls

C6_Witness ==
    /\ pc = "rebuild_return"
    /\ rb.result
    /\ rb.polls = 3
    /\ Count("STATUS", i) = 3

\* C7 (Spec): a recovery makes at most 10 status requests, begins no iteration at
\* or after 600 s, and returns failure when the loop ends without a terminal stage.
C7_PollingBounded ==
    /\ \A k \in 1..Len(space_list) : Count("STATUS", k) <= 10
    /\ rb.polls <= 10
    /\ pc \in {"rebuild_sleep", "rebuild_get"} => rb.iter_begin < 600
    /\ rb.polls >= 1 => rb.iter_begin < 600
    /\ (pc = "rebuild_return" /\ rb.posted /\ rb.last_poll.kind = "none") => ~rb.result

C7_Witness ==
    /\ pc = "rebuild_return"
    /\ rb.posted
    /\ rb.polls = 10
    /\ rb.clean
    /\ rb.last_poll.kind = "none"
    /\ ~rb.result

\* C8 (Spec): for a valid space rebuild_space is called once when the probe failed
\* and never when it succeeded; the recorded outcome is what the call returned;
\* no space gets a second rebuild.
JustRecorded == pc = "loop" /\ i > 1 /\ Len(results) = i - 1 /\ IsValid(i - 1)

C8_OneRecovery ==
    /\ obs.calls <= 1
    /\ \A k \in 1..Len(space_list) : Count("POST", k) <= 1
    /\ InRebuild => obs.calls = 1 /\ ~probe.status
    /\ JustRecorded =>
          IF probe.status
          THEN obs.calls = 0 /\ Count("POST", i - 1) = 0
          ELSE /\ obs.calls = 1
               /\ rb.returned
               /\ results[i - 1].result = rb.result
               /\ results[i - 1].duration = rb.duration

C8_Witness ==
    /\ JustRecorded
    /\ ~probe.status
    /\ obs.calls = 1
    /\ rb.result
    /\ results[i - 1].result

\* C9 (Spec): the process exits with 0 exactly when every recorded outcome is a
\* success, and with 1 when some outcome is a failure.
AllSucceeded == \A n \in 1..Len(results) : results[n].result = TRUE

C9_ExitCode ==
    pc \in {"done", "crashed"} => (exit_code = 0 <=> AllSucceeded) /\ exit_code \in {0, 1}

\* C10 (Spec): spaces are handled in the configured order, each started only when
\* the check before it found the time since the start within the global timeout;
\* the results are a prefix of the list, and a space left out has no outcome and
\* no request.
Finishing == pc \in {"report", "exit", "done"}

C10_PrefixInOrder ==
    /\ Len(results) <= Len(space_list)
    /\ \A k \in 1..Len(results) : results[k].space = space_list[k]
    /\ \A n \in 1..(Len(net) - 1) : net[n].idx <= net[n + 1].idx
    /\ \A n \in 1..Len(net) : net[n].idx <= i
    /\ pc \notin {"loop", "report", "exit", "done"} =>
          /\ obs.check_elapsed <= global_timeout_seconds
          /\ i <= Len(space_list)
          /\ Len(results) \in {i - 1, i}
    /\ (Finishing /\ Len(results) < Len(space_list)) =>
          /\ now - start_time > global_timeout_seconds
          /\ \A n \in 1..Len(net) : net[n].idx <= Len(results)

C10_Witness ==
    /\ pc = "done"
    /\ Len(results) >= 1
    /\ Len(results) < Len(space_list)
    /\ Len(net) >= 1

\* C11 (Spec): no failure while handling a space aborts the run; the run reaches
\* the report and writes one new entry holding its batch.
C11_NoAbort ==
    /\ pc # "crashed"
    /\ pc \in {"exit", "done"} =>
          /\ runs = 1
          /\ Persisted(data_file) # << >>
          /\ Persisted(data_file)[Len(Persisted(data_file))] = [k |-> last.key, v |-> last.batch]

\* C12 (Spec): when the probe failed and the rebuild failed, the recorded
\* error_type names the failure the probe met.
C12_ErrorKindObserved ==
    (JustRecorded /\ ~probe.status /\ ~rb.result) =>
        results[i - 1].error_type = probe.outcome

\* C13 (Spec), as claimed: at no time are two rebuilds of this run in progress,
\* that is triggered and not yet seen at RUNNING or at an ERROR stage.
C13_NoOverlap == Cardinality(inflight) <= 1

\* C13 (Spec), amended: the calls of rebuild_space do not overlap: a POST goes out
\* only when every earlier space has its outcome, and a rebuild still in progress
\* when a later space is handled is one its call gave up on and returned failure.
C13_CallsSequential ==
    /\ \A n \in 1..Len(net) : net[n].req = "POST" => Len(results) >= net[n].idx - 1
    /\ \A n \in 1..(Len(net) - 1) :
          net[n + 1].req = "POST" => net[n].idx <= net[n + 1].idx /\ net[n].req # "SLEEP"
    /\ InRebuild => Len(results) = i - 1
    /\ \A k \in inflight : k <= i /\ (k <= Len(results) => results[k].result = FALSE)

C13_Witness ==
    /\ Cardinality(inflight) = 2
    /\ pc = "rebuild_guard"
    /\ Len(results) = 1
    /\ ~results[1].result

\* C14 (Spec): a failed POST, a failed status request or an ERROR stage ends the
\* recovery with failure: it is the last request of that recovery, and a failed
\* POST is followed by no sleep and no status request.
FailedPoll == rb.last_poll.kind \in {"request_exception", "exception"}
                \/ (rb.last_poll.kind = "stage" /\ ContainsERROR(rb.last_poll.stage))

C15_SleepBeforeStatus ==
    /\ \A n \in 1..Len(net) :
          /\ net[n].req = "STATUS" =>
                 n >= 3 /\ net[n - 1] = [req |-> "SLEEP", idx |-> net[n].idx]
          /\ net[n].req = "SLEEP" =>
                 /\ n >= 2
                 /\ net[n - 1].idx = net[n].idx
                 /\ net[n - 1].req \in {"POST", "STATUS"}
    /\ pc = "rebuild_get" => rb.posted /\ Elapsed >= (rb.polls + 1) * 30
    /\ (pc = "rebuild_return" /\ rb.result) => rb.duration >= rb.polls * 30

C15_Witness ==
    /\ pc = "rebuild_return"
    /\ rb.result
    /\ rb.polls = 2
    /\ rb.duration >= 60

\* C16 (Spec), as claimed: with requests of at most 30 s a recovery never lasts
\* more than 600 s.
C16_Within600 ==
    (latency <= 30 /\ pc = "rebuild_return") => rb.duration <= 600

\* C16 (Spec), amended: with requests of at most 30 s a recovery never lasts more
\* than 630 s, and the handling of one space ends at most 660 s after the check
\* that admitted it.
C16_Within630 ==
    latency <= 30 =>
        /\ InRebuild => Elapsed <= 630
        /\ rb.returned => rb.duration <= 630
        /\ now - start_time <= obs.check_elapsed + 660
        /\ obs.check_elapsed <= global_timeout_seconds

C16_Witness ==
    /\ latency <= 30
    /\ pc = "rebuild_return"
    /\ rb.polls = 10
    /\ rb.duration > 600
    /\ now - start_time > global_timeout_seconds + 600

\* C17 (HistorySpec): what a run writes has at most 50 entries, holds the run's
\* batch, and is the trailing 50 of what was loaded with the batch merged in.
Merged(loaded, key, batch) ==
    IF \E n \in 1..Len(loaded) : loaded[n].k = key
    THEN [n \in 1..Len(loaded) |->
             IF loaded[n].k = key THEN [k |-> key, v |-> batch] ELSE loaded[n]]
    ELSE loaded \o << [k |-> key, v |-> batch] >>

C18_PostOnlyAfterFailedGet ==
    /\ \A n \in 1..Len(net) : net[n].req = "POST" => Count("GET", net[n].idx) = 1
    /\ InRebuild => probe.sent /\ ~probe.status

\* C19 (Spec), as claimed: the batch written has one record per outcome of the
\* run, each with that outcome's success value.
Written == pc \in {"exit", "done"}
WrittenBatch == Persisted(data_file)[Len(Persisted(data_file))].v

C19_OneRecordPerOutcome ==
    Written =>
        /\ Len(WrittenBatch) = Len(results)
        /\ \A n \in 1..Len(results) : WrittenBatch[n].v.status = results[n].result

\* C19 (Spec), amended: the batch written has one record per distinct display
\* name among the outcomes, with the success value of the last outcome of that
\* name; with no name repeated that is one record per
\* outcome.
LastOf(name) ==
    CHOOSE n \in 1..Len(results) :
        /\ DisplayName(results[n]) = name
        /\ \A m \in (n + 1)..Len(results) : DisplayName(results[m]) # name

C19_OneRecordPerName ==
    Written =>
        LET b == WrittenBatch
            names == {DisplayName(results[n]) : n \in 1..Len(results)}
        IN  /\ Len(b) = Cardinality(names)
            /\ \A n \in 1..Len(results) :
                  Cardinality({m \in 1..Len(b) : b[m].k = DisplayName(results[n])}) = 1
            /\ \A m \in 1..Len(b) :
                  /\ b[m].k \in names
                  /\ b[m].v.status = results[LastOf(b[m].k)].result
            /\ Cardinality(names) = Len(results) =>
                  \A n \in 1..Len(results) :
                      b[n].k = DisplayName(results[n]) /\ b[n].v.status = results[n].result

C19_Witness ==
    /\ pc = "done"
    /\ Len(results) = 2
    /\ results[1].space = results[2].space
    /\ results[1].result /\ ~results[2].result
    /\ Len(WrittenBatch) = 1
    /\ ~WrittenBatch[1].v.status

\* C20 (Spec): in the batch written a record has status true exactly when its
\* error_type is empty.
C20_StatusIffNoError ==
    Written =>
        \A m \in 1..Len(WrittenBatch) :
            WrittenBatch[m].v.status <=> WrittenBatch[m].v.error_type = ""

C20_Witness ==
    /\ pc = "done"
    /\ Len(WrittenBatch) = 2
    /\ WrittenBatch[1].v.status /\ WrittenBatch[1].v.error_type = ""
    /\ ~WrittenBatch[2].v.status /\ WrittenBatch[2].v.error_type = "connection_error"
    /\ Count("POST", 1) = 1

====
